---------------------------- MODULE Spec2Model ----------------------------
(***************************************************************************)
(* Point-free inspection ("tap"): src/src/tap.rs.                          *)
(*                                                                         *)
(* A chain  v.op1(f1).op2(f2)...  is modelled as a state machine: `self`   *)
(* is the receiver travelling down the chain, every step applies one       *)
(* method of trait Tap or TapFallible to it with an effect closure `func`. *)
(* Each method is an operator that returns what the method returns plus    *)
(* what its effect did to the enclosing scope (`val`, the captured         *)
(* variable of tests/lib.rs, and `calls`, the record of every invocation   *)
(* of an effect with the view it was handed).                              *)
(***************************************************************************)
EXTENDS Integers, Sequences, FiniteSets, TLC

VARIABLES
    debug_assertions,   \* cfg!(debug_assertions): fixed when the crate is built
    self,               \* the receiver, owned by the chain
    val,                \* the variable the effect closures capture
    calls,              \* every effect invocation so far: <<[at, func, seen]>>
    hist                \* every method call so far: <<[op, via, func, input, output, val0]>>

vars == <<debug_assertions, self, val, calls, hist>>

\* Longest chain of method calls explored.
MaxChain == 3

\* `let mut val = 5;`
InitVal == 5

-----------------------------------------------------------------------------
(* Values.  Every value is a record carrying its type, so that a view and   *)
(* the receiver it was derived from are different things whenever the       *)
(* conversion is not the identity.                                          *)

Unit == [ty |-> "unit"]
I32(n) == [ty |-> "i32", val |-> n]
\* Vec<i32>: the elements and the allocation's capacity.
Vec(buf, cap) == [ty |-> "Vec", buf |-> buf, cap |-> cap]
\* [i32]: the elements only.
Slice(buf) == [ty |-> "slice", buf |-> buf]
Ok(v) == [ty |-> "Result", tag |-> "Ok", val |-> v]
Err(e) == [ty |-> "Result", tag |-> "Err", val |-> e]
Some(v) == [ty |-> "Option", tag |-> "Some", val |-> v]
None == [ty |-> "Option", tag |-> "None", val |-> Unit]
Continue(c) == [ty |-> "ControlFlow", tag |-> "Continue", val |-> c]
Break(b) == [ty |-> "ControlFlow", tag |-> "Break", val |-> b]

\* The implementors of core::ops::Try the model covers.
TryTypes == {"Result", "Option", "ControlFlow"}

\* <T as Try>::Residual, e.g. Result<Infallible, E> for Result<T, E>.
ResidualTy(T) ==
    CASE T = "Result" -> "ResultResidual"
      [] T = "Option" -> "OptionResidual"
      [] T = "ControlFlow" -> "ControlFlowResidual"

\* <T as Try>::Output.
OutputTy(T) == "i32"

\* ControlFlow::Continue(output) / ControlFlow::Break(residual) as `branch` returns them.
CfContinue(output) == [cf |-> "Continue", v |-> output]
CfBreak(residual) == [cf |-> "Break", v |-> residual]

\* Try::branch: the success payload, or the residual that carries the failure payload.
Branch(x) ==
    IF x.tag \in {"Ok", "Some", "Continue"}
    THEN CfContinue(x.val)
    ELSE CfBreak([ty |-> ResidualTy(x.ty), val |-> x.val])

\* Try::from_output
FromOutput(T, output) ==
    CASE T = "Result" -> Ok(output)
      [] T = "Option" -> Some(output)
      [] T = "ControlFlow" -> Continue(output)

\* FromResidual::from_residual
FromResidual(T, residual) ==
    CASE T = "Result" -> Err(residual.val)
      [] T = "Option" -> None
      [] T = "ControlFlow" -> Break(residual.val)

-----------------------------------------------------------------------------
(* View conversions of the receiver types.                                  *)

\* B such that Self: Borrow<B> (and BorrowMut<B>).
BorrowTargets(T) == IF T = "Vec" THEN {"Vec", "slice"} ELSE {T}
\* R such that Self: AsRef<R> (and AsMut<R>).
AsRefTargets(T) == IF T = "Vec" THEN {"Vec", "slice"} ELSE {}
\* Target such that Self: Deref<Target = T> (and DerefMut).
DerefTargets(T) == IF T = "Vec" THEN {"slice"} ELSE {}

\* The view of x as a V: x itself (impl Borrow<T> for T), or the slice of a Vec.
View(x, V) == IF V = x.ty THEN x ELSE Slice(x.buf)
\* x after the exclusive view of it as a V was left holding `view`.
WriteThrough(x, V, view) == IF V = x.ty THEN view ELSE [x EXCEPT !.buf = view.buf]

\* Borrow::<B>::borrow / BorrowMut::<B>::borrow_mut
Borrow(x, B) == View(x, B)
\* AsRef::<R>::as_ref / AsMut::<R>::as_mut
AsRef(x, R) == View(x, R)
\* Deref::deref / DerefMut::deref_mut
Deref(x, T) == View(x, T)

-----------------------------------------------------------------------------
(* Effects: the closures handed to the taps.                                *)

\* <[_]>::sort
RECURSIVE Insert(_, _)
Insert(x, s) ==
    IF s = <<>> THEN <<x>>
    ELSE IF x <= Head(s) THEN <<x>> \o s
    ELSE <<Head(s)>> \o Insert(x, Tail(s))
RECURSIVE Sorted(_)
Sorted(s) == IF s = <<>> THEN s ELSE Insert(Head(s), Sorted(Tail(s)))

\* The closures that type-check as FnOnce(&ty), or as FnOnce(&mut ty) when `mut`.
Effects(ty, mut) ==
    CASE ty = "i32" -> IF mut THEN {"Double"} ELSE {"AddVal", "SetVal"}
      [] ty = "slice" -> IF mut THEN {"Sort"} ELSE {"LenVal"}
      [] ty = "Vec" -> IF mut THEN {"Sort"} ELSE {"LenVal"}
      [] ty \in TryTypes -> IF mut THEN {"Fail"} ELSE {"Touch"}
      [] ty \in {"ResultResidual", "ControlFlowResidual"} ->
            IF mut THEN {"DoublePayload"} ELSE {"SetValPayload"}
      [] ty = "OptionResidual" -> {"SetVal10"}

\* What the closure leaves in the value it was lent exclusively.
EffMut(func, view) ==
    CASE func = "Double" -> I32(2 * view.val)                       \* |v| *v *= 2
      [] func = "Sort" -> [view EXCEPT !.buf = Sorted(@)]           \* <[_]>::sort, |v| v.sort()
      [] func = "DoublePayload" -> [view EXCEPT !.val = I32(2 * @.val)]  \* |Err(e)| *e *= 2
      [] func = "Fail" ->                                           \* |r| *r = Err(0), |o| *o = None
            (CASE view.ty = "Result" -> Err(I32(0))
               [] view.ty = "Option" -> None
               [] view.ty = "ControlFlow" -> Break(I32(0)))
      [] OTHER -> view

\* What the closure leaves in the variable it captured.
EffVal(func, view, v) ==
    CASE func = "AddVal" -> v + view.val                            \* |v| val += *v
      [] func = "SetVal" -> view.val                                \* |v| val = *v
      [] func = "SetValPayload" -> view.val.val                     \* |Err(e)| val = *e
      [] func = "SetVal10" -> 10                                    \* |None| val = 10
      [] func = "LenVal" -> Len(view.buf)                           \* |s| val = s.len()
      [] OTHER -> v                                                 \* |x| println!(..)

\* The scope a method is called in: the captured variable, the invocations so
\* far, and the method's position in the chain.
Scope == [val |-> val, calls |-> calls, at |-> Len(hist) + 1]

\* func(view): one invocation of the closure.
Invoke(func, view, env) ==
    [view |-> EffMut(func, view),
     val |-> EffVal(func, view, env.val),
     calls |-> Append(env.calls, [at |-> env.at, func |-> func, seen |-> view])]

\* A method's return: the value handed back and the scope as the call left it.
Ret(ret, r) == [ret |-> ret, val |-> r.val, calls |-> r.calls]
\* Returning the receiver without having called the closure.
Untouched(slf, env) == [ret |-> slf, val |-> env.val, calls |-> env.calls]

-----------------------------------------------------------------------------
(* trait Tap.                                                               *)

\* tap with the call of its closure left out.
tap_elided(slf, func, env) == Untouched(slf, env)

tap(slf, func, env) ==
    LET r == Invoke(func, slf, env)                        \* func(&self);
    IN  Ret(slf, r)                                        \* self

\* tap_mut lending its closure a copy and returning the original.
tap_mut_on_copy(slf, func, env) ==
    LET r == Invoke(func, slf, env)
    IN  Ret(slf, r)

tap_mut(slf, func, env) ==
    LET r == Invoke(func, slf, env)                        \* func(&mut self);
    IN  Ret(r.view, r)                                     \* self

tap_borrow(slf, B, func, env) ==
    LET r == Invoke(func, Borrow(slf, B), env)             \* func(Borrow::<B>::borrow(&self));
    IN  Ret(slf, r)

\* tap_borrow_mut lending its closure a copy of the view.
tap_borrow_mut_on_copy(slf, B, func, env) ==
    LET r == Invoke(func, Borrow(slf, B), env)
    IN  Ret(slf, r)

tap_borrow_mut(slf, B, func, env) ==
    LET r == Invoke(func, Borrow(slf, B), env)             \* func(BorrowMut::<B>::borrow_mut(&mut self));
    IN  Ret(WriteThrough(slf, B, r.view), r)

\* tap_ref handing its closure the receiver instead of its AsRef view.
tap_ref_direct(slf, R, func, env) ==
    LET r == Invoke(func, slf, env)
    IN  Ret(slf, r)

tap_ref(slf, R, func, env) ==
    LET r == Invoke(func, AsRef(slf, R), env)              \* func(AsRef::<R>::as_ref(&self));
    IN  Ret(slf, r)

tap_ref_mut(slf, R, func, env) ==
    LET r == Invoke(func, AsRef(slf, R), env)              \* func(AsMut::<R>::as_mut(&mut self));
    IN  Ret(WriteThrough(slf, R, r.view), r)

tap_deref(slf, T, func, env) ==
    LET r == Invoke(func, Deref(slf, T), env)              \* func(Deref::deref(&self));
    IN  Ret(slf, r)

\* tap_deref_mut losing what its closure wrote to the target.
tap_deref_mut_on_copy(slf, T, func, env) ==
    LET r == Invoke(func, Deref(slf, T), env)
    IN  Ret(slf, r)

tap_deref_mut(slf, T, func, env) ==
    LET r == Invoke(func, Deref(slf, T), env)              \* func(DerefMut::deref_mut(&mut self));
    IN  Ret(WriteThrough(slf, T, r.view), r)

\* debug-build-only copies of the above methods

tap_dbg(slf, func, env) ==
    IF debug_assertions
    THEN LET r == Invoke(func, slf, env) IN Ret(slf, r)
    ELSE Untouched(slf, env)

\* tap_mut_dbg without its cfg!(debug_assertions) test.
tap_mut_dbg_ungated(slf, func, env) ==
    LET r == Invoke(func, slf, env) IN Ret(r.view, r)

tap_mut_dbg(slf, func, env) ==
    IF debug_assertions
    THEN LET r == Invoke(func, slf, env) IN Ret(r.view, r)
    ELSE Untouched(slf, env)

tap_borrow_dbg(slf, B, func, env) ==
    IF debug_assertions
    THEN LET r == Invoke(func, Borrow(slf, B), env) IN Ret(slf, r)
    ELSE Untouched(slf, env)

tap_borrow_mut_dbg(slf, B, func, env) ==
    IF debug_assertions
    THEN LET r == Invoke(func, Borrow(slf, B), env) IN Ret(WriteThrough(slf, B, r.view), r)
    ELSE Untouched(slf, env)

tap_ref_dbg(slf, R, func, env) ==
    IF debug_assertions
    THEN LET r == Invoke(func, AsRef(slf, R), env) IN Ret(slf, r)
    ELSE Untouched(slf, env)

tap_ref_mut_dbg(slf, R, func, env) ==
    IF debug_assertions
    THEN LET r == Invoke(func, AsRef(slf, R), env) IN Ret(WriteThrough(slf, R, r.view), r)
    ELSE Untouched(slf, env)

tap_deref_dbg(slf, T, func, env) ==
    IF debug_assertions
    THEN LET r == Invoke(func, Deref(slf, T), env) IN Ret(slf, r)
    ELSE Untouched(slf, env)

tap_deref_mut_dbg(slf, T, func, env) ==
    IF debug_assertions
    THEN LET r == Invoke(func, Deref(slf, T), env) IN Ret(WriteThrough(slf, T, r.view), r)
    ELSE Untouched(slf, env)

-----------------------------------------------------------------------------
(* trait TapFallible, impl<T: Try> TapFallible for T.                       *)

\* tap_continue_mut without the match on the branch: the closure gets the payload
\* of whichever branch there is.
tap_continue_mut_unchecked(slf, func, env) ==
    IF slf.val = Unit THEN Untouched(slf, env)
    ELSE LET r == Invoke(func, slf.val, env)
         IN  Ret([slf EXCEPT !.val = r.view], r)

\* tap_continue_mut rebuilding the Outcome from the payload as it was before the closure ran.
tap_continue_mut_on_copy(slf, func, env) ==
    LET b == Branch(slf) IN
    IF b.cf = "Continue"
    THEN LET r == Invoke(func, b.v, env)
         IN  Ret(FromOutput(slf.ty, b.v), r)
    ELSE Untouched(FromResidual(slf.ty, b.v), env)

\* tap_break with the call of its closure missing from the Break arm.
tap_break_never(slf, func, env) ==
    LET b == Branch(slf) IN
    IF b.cf = "Continue"
    THEN Untouched(FromOutput(slf.ty, b.v), env)
    ELSE Untouched(FromResidual(slf.ty, b.v), env)

\* tap_break_mut rebuilding with from_output in the Break arm.
tap_break_mut_from_output(slf, func, env) ==
    LET b == Branch(slf) IN
    IF b.cf = "Continue"
    THEN Untouched(FromOutput(slf.ty, b.v), env)
    ELSE LET r == Invoke(func, b.v, env)
         IN  Ret(FromOutput(slf.ty, r.view.val), r)

tap_continue(slf, func, env) ==
    LET b == Branch(slf) IN                                \* match self.branch()
    IF b.cf = "Continue"
    THEN LET r == Invoke(func, b.v, env)                   \* func(&output);
         IN  Ret(FromOutput(slf.ty, b.v), r)               \* Self::from_output(output)
    ELSE Untouched(FromResidual(slf.ty, b.v), env)         \* Self::from_residual(residual)

tap_continue_mut(slf, func, env) ==
    LET b == Branch(slf) IN
    IF b.cf = "Continue"
    THEN LET r == Invoke(func, b.v, env)                   \* func(&mut output);
         IN  Ret(FromOutput(slf.ty, r.view), r)
    ELSE Untouched(FromResidual(slf.ty, b.v), env)

tap_break(slf, func, env) ==
    LET b == Branch(slf) IN
    IF b.cf = "Continue"
    THEN Untouched(FromOutput(slf.ty, b.v), env)           \* Self::from_output(output)
    ELSE LET r == Invoke(func, b.v, env)                   \* func(&residual);
         IN  Ret(FromResidual(slf.ty, b.v), r)             \* Self::from_residual(residual)

tap_break_mut(slf, func, env) ==
    LET b == Branch(slf) IN
    IF b.cf = "Continue"
    THEN Untouched(FromOutput(slf.ty, b.v), env)
    ELSE LET r == Invoke(func, b.v, env)                   \* func(&mut residual);
         IN  Ret(FromResidual(slf.ty, r.view), r)

tap_continue_dbg(slf, func, env) ==
    IF debug_assertions THEN tap_continue(slf, func, env) ELSE Untouched(slf, env)

tap_continue_mut_dbg(slf, func, env) ==
    IF debug_assertions THEN tap_continue_mut(slf, func, env) ELSE Untouched(slf, env)

tap_break_dbg(slf, func, env) ==
    IF debug_assertions THEN tap_break(slf, func, env) ELSE Untouched(slf, env)

tap_break_mut_dbg(slf, func, env) ==
    IF debug_assertions THEN tap_break_mut(slf, func, env) ELSE Untouched(slf, env)

-----------------------------------------------------------------------------
(* The chain.                                                               *)

\* The receivers a chain starts from (tests/lib.rs and the examples of tap.rs).
Receivers ==
    { I32(10),
      Vec(<<1, 5, 2, 4, 3>>, 5), Vec(<<2, 1>>, 4),
      Ok(I32(3)), Ok(I32(8)), Err(I32(5)),
      Some(I32(3)), None,
      Continue(I32(3)), Break(I32(5)) }

Init ==
    /\ debug_assertions \in BOOLEAN
    /\ self \in Receivers
    /\ val = InitVal
    /\ calls = <<>>
    /\ hist = <<>>

\* `self.op(func)` returned r: the chain goes on with what it returned.
Step(op, via, func, r) ==
    /\ self' = r.ret
    /\ val' = r.val
    /\ calls' = r.calls
    /\ hist' = Append(hist, [op |-> op, via |-> via, func |-> func, input |-> self,
                             output |-> r.ret, val0 |-> val])
    /\ UNCHANGED debug_assertions

Chaining == Len(hist) < MaxChain

Call_tap ==
    /\ Chaining
    /\ \E func \in Effects(self.ty, FALSE) : Step("tap", self.ty, func, tap(self, func, Scope))

Call_tap_mut ==
    /\ Chaining
    /\ \E func \in Effects(self.ty, TRUE) : Step("tap_mut", self.ty, func, tap_mut(self, func, Scope))

Call_tap_borrow ==
    /\ Chaining
    /\ \E B \in BorrowTargets(self.ty) : \E func \in Effects(B, FALSE) :
          Step("tap_borrow", B, func, tap_borrow(self, B, func, Scope))

Call_tap_borrow_mut ==
    /\ Chaining
    /\ \E B \in BorrowTargets(self.ty) : \E func \in Effects(B, TRUE) :
          Step("tap_borrow_mut", B, func, tap_borrow_mut(self, B, func, Scope))

Call_tap_ref ==
    /\ Chaining
    /\ \E R \in AsRefTargets(self.ty) : \E func \in Effects(R, FALSE) :
          Step("tap_ref", R, func, tap_ref(self, R, func, Scope))

Call_tap_ref_mut ==
    /\ Chaining
    /\ \E R \in AsRefTargets(self.ty) : \E func \in Effects(R, TRUE) :
          Step("tap_ref_mut", R, func, tap_ref_mut(self, R, func, Scope))

Call_tap_deref ==
    /\ Chaining
    /\ \E T \in DerefTargets(self.ty) : \E func \in Effects(T, FALSE) :
          Step("tap_deref", T, func, tap_deref(self, T, func, Scope))

Call_tap_deref_mut ==
    /\ Chaining
    /\ \E T \in DerefTargets(self.ty) : \E func \in Effects(T, TRUE) :
          Step("tap_deref_mut", T, func, tap_deref_mut(self, T, func, Scope))

Call_tap_dbg ==
    /\ Chaining
    /\ \E func \in Effects(self.ty, FALSE) : Step("tap_dbg", self.ty, func, tap_dbg(self, func, Scope))

Call_tap_mut_dbg ==
    /\ Chaining
    /\ \E func \in Effects(self.ty, TRUE) : Step("tap_mut_dbg", self.ty, func, tap_mut_dbg(self, func, Scope))

Call_tap_borrow_dbg ==
    /\ Chaining
    /\ \E B \in BorrowTargets(self.ty) : \E func \in Effects(B, FALSE) :
          Step("tap_borrow_dbg", B, func, tap_borrow_dbg(self, B, func, Scope))

Call_tap_borrow_mut_dbg ==
    /\ Chaining
    /\ \E B \in BorrowTargets(self.ty) : \E func \in Effects(B, TRUE) :
          Step("tap_borrow_mut_dbg", B, func, tap_borrow_mut_dbg(self, B, func, Scope))

Call_tap_ref_dbg ==
    /\ Chaining
    /\ \E R \in AsRefTargets(self.ty) : \E func \in Effects(R, FALSE) :
          Step("tap_ref_dbg", R, func, tap_ref_dbg(self, R, func, Scope))

Call_tap_ref_mut_dbg ==
    /\ Chaining
    /\ \E R \in AsRefTargets(self.ty) : \E func \in Effects(R, TRUE) :
          Step("tap_ref_mut_dbg", R, func, tap_ref_mut_dbg(self, R, func, Scope))

Call_tap_deref_dbg ==
    /\ Chaining
    /\ \E T \in DerefTargets(self.ty) : \E func \in Effects(T, FALSE) :
          Step("tap_deref_dbg", T, func, tap_deref_dbg(self, T, func, Scope))

Call_tap_deref_mut_dbg ==
    /\ Chaining
    /\ \E T \in DerefTargets(self.ty) : \E func \in Effects(T, TRUE) :
          Step("tap_deref_mut_dbg", T, func, tap_deref_mut_dbg(self, T, func, Scope))

Call_tap_continue ==
    /\ Chaining
    /\ self.ty \in TryTypes
    /\ \E func \in Effects(OutputTy(self.ty), FALSE) :
          Step("tap_continue", self.ty, func, tap_continue(self, func, Scope))

Call_tap_continue_mut ==
    /\ Chaining
    /\ self.ty \in TryTypes
    /\ \E func \in Effects(OutputTy(self.ty), TRUE) :
          Step("tap_continue_mut", self.ty, func, tap_continue_mut(self, func, Scope))

Call_tap_break ==
    /\ Chaining
    /\ self.ty \in TryTypes
    /\ \E func \in Effects(ResidualTy(self.ty), FALSE) :
          Step("tap_break", self.ty, func, tap_break(self, func, Scope))

Call_tap_break_mut ==
    /\ Chaining
    /\ self.ty \in TryTypes
    /\ \E func \in Effects(ResidualTy(self.ty), TRUE) :
          Step("tap_break_mut", self.ty, func, tap_break_mut(self, func, Scope))

Call_tap_continue_dbg ==
    /\ Chaining
    /\ self.ty \in TryTypes
    /\ \E func \in Effects(OutputTy(self.ty), FALSE) :
          Step("tap_continue_dbg", self.ty, func, tap_continue_dbg(self, func, Scope))

Call_tap_continue_mut_dbg ==
    /\ Chaining
    /\ self.ty \in TryTypes
    /\ \E func \in Effects(OutputTy(self.ty), TRUE) :
          Step("tap_continue_mut_dbg", self.ty, func, tap_continue_mut_dbg(self, func, Scope))

Call_tap_break_dbg ==
    /\ Chaining
    /\ self.ty \in TryTypes
    /\ \E func \in Effects(ResidualTy(self.ty), FALSE) :
          Step("tap_break_dbg", self.ty, func, tap_break_dbg(self, func, Scope))

Call_tap_break_mut_dbg ==
    /\ Chaining
    /\ self.ty \in TryTypes
    /\ \E func \in Effects(ResidualTy(self.ty), TRUE) :
          Step("tap_break_mut_dbg", self.ty, func, tap_break_mut_dbg(self, func, Scope))

Next ==
    \/ Call_tap
    \/ Call_tap_mut
    \/ Call_tap_borrow
    \/ Call_tap_borrow_mut
    \/ Call_tap_ref
    \/ Call_tap_ref_mut
    \/ Call_tap_deref
    \/ Call_tap_deref_mut
    \/ Call_tap_dbg
    \/ Call_tap_mut_dbg
    \/ Call_tap_borrow_dbg
    \/ Call_tap_borrow_mut_dbg
    \/ Call_tap_ref_dbg
    \/ Call_tap_ref_mut_dbg
    \/ Call_tap_deref_dbg
    \/ Call_tap_deref_mut_dbg
    \/ Call_tap_continue
    \/ Call_tap_continue_mut
    \/ Call_tap_break
    \/ Call_tap_break_mut
    \/ Call_tap_continue_dbg
    \/ Call_tap_continue_mut_dbg
    \/ Call_tap_break_dbg
    \/ Call_tap_break_mut_dbg

Spec == Init /\ [][Next]_vars

-----------------------------------------------------------------------------
(* Reading the history.                                                     *)

\* The invocations made by the k-th method call of the chain.
InvocationsOf(k) == {i \in DOMAIN calls : calls[i].at = k}
Invoked(k) == InvocationsOf(k) # {}
InvokedOnce(k) == Cardinality(InvocationsOf(k)) = 1
\* What the k-th call's effect was handed.
SeenBy(k) == calls[CHOOSE i \in InvocationsOf(k) : TRUE].seen
\* The captured variable as the k-th call left it.
ValAfter(k) == IF k = Len(hist) THEN val ELSE hist[k + 1].val0

\* An Outcome on its Success (Continue) branch.
OnSuccess(o) == o.tag \in {"Ok", "Some", "Continue"}

ContinueOps == {"tap_continue", "tap_continue_mut"}
BreakOps == {"tap_break", "tap_break_mut"}
ConditionalOps ==
    ContinueOps \union BreakOps \union
    {"tap_continue_dbg", "tap_continue_mut_dbg", "tap_break_dbg", "tap_break_mut_dbg"}
UnconditionalOps ==
    {"tap", "tap_mut", "tap_borrow", "tap_borrow_mut", "tap_ref", "tap_ref_mut",
     "tap_deref", "tap_deref_mut"}
GatedTapOps ==
    {"tap_dbg", "tap_mut_dbg", "tap_borrow_dbg", "tap_borrow_mut_dbg", "tap_ref_dbg",
     "tap_ref_mut_dbg", "tap_deref_dbg", "tap_deref_mut_dbg"}
GatedOps ==
    GatedTapOps \union
    {"tap_continue_dbg", "tap_continue_mut_dbg", "tap_break_dbg", "tap_break_mut_dbg"}

\* What a closure does to a payload it is lent exclusively, stated on the payload.
PayloadAfter(func, p) ==
    IF func \in {"Double", "DoublePayload"} THEN [p EXCEPT !.val = 2 * @] ELSE p

\* What a closure does to the elements of a sequence view.
ElementsAfter(func, buf) == IF func = "Sort" THEN Sorted(buf) ELSE buf

-----------------------------------------------------------------------------
(* C1  Conditional selectivity.  tap_continue and tap_continue_mut invoke   *)
(* their effect if and only if the Outcome they are called on is on the     *)
(* Success branch, tap_break and tap_break_mut if and only if it is on the  *)
(* Failure branch; whenever a success tap and a failure tap were applied to *)
(* the same Outcome, exactly one of the two effects was invoked.            *)
ConditionalSelectivity ==
    /\ \A k \in DOMAIN hist :
          /\ hist[k].op \in ContinueOps => (Invoked(k) <=> OnSuccess(hist[k].input))
          /\ hist[k].op \in BreakOps => (Invoked(k) <=> ~OnSuccess(hist[k].input))
    /\ \A j, k \in DOMAIN hist :
          (/\ hist[j].op \in ContinueOps
           /\ hist[k].op \in BreakOps
           /\ hist[j].input = hist[k].input)
          => (Invoked(j) <=> ~Invoked(k))

\* Err(5).tap_continue(f).tap_break(g): f was not called, g was.
ConditionalSelectivityWitness ==
    \E j, k \in DOMAIN hist :
        /\ hist[j].op = "tap_continue" /\ hist[k].op = "tap_break"
        /\ hist[j].input = Err(I32(5)) /\ hist[k].input = Err(I32(5))
        /\ ~Invoked(j) /\ Invoked(k)

(* C2  Conditional identity.  Every conditional tap, gated or not, returns  *)
(* an Outcome of the type and on the branch of the one it was called on,    *)
(* and so does every run of consecutive conditional taps, whatever the      *)
(* effects did to the payload.                                              *)
ConditionalIdentity ==
    \A j, k \in DOMAIN hist :
        (j <= k /\ \A m \in j..k : hist[m].op \in ConditionalOps)
        => /\ hist[k].output.ty = hist[j].input.ty
           /\ hist[k].output.tag = hist[j].input.tag

\* Three conditional taps in a row, one of which changed the payload.
ConditionalIdentityWitness ==
    /\ Len(hist) = 3
    /\ \A m \in DOMAIN hist : hist[m].op \in ConditionalOps
    /\ \E m \in DOMAIN hist : Invoked(m) /\ hist[m].output # hist[m].input
    /\ self.tag = hist[1].input.tag

(* C3  Identity law.  tap invokes its effect exactly once, hands it the     *)
(* receiver itself, and returns the receiver as it was; 10.tap(|v| val +=   *)
(* *v) with val = 5 returns 10 and leaves val = 15.                         *)
IdentityLaw ==
    \A k \in DOMAIN hist :
        hist[k].op = "tap" =>
            /\ InvokedOnce(k)
            /\ SeenBy(k) = hist[k].input
            /\ hist[k].output = hist[k].input
            /\ (hist[k].input = I32(10) /\ hist[k].func = "AddVal" /\ hist[k].val0 = 5)
               => (hist[k].output = I32(10) /\ ValAfter(k) = 15)

\* 10.tap(|v| val += *v) has run.
IdentityLawWitness ==
    /\ Len(hist) = 1
    /\ hist[1].op = "tap" /\ hist[1].func = "AddVal" /\ hist[1].input = I32(10)
    /\ self = I32(10) /\ val = 15

(* C4  Mutation visibility.  tap_mut invokes its effect once on the         *)
(* receiver and returns the receiver as the effect left it: what the effect *)
(* changed is changed, and nothing else is.                                 *)
MutationVisibility ==
    \A k \in DOMAIN hist :
        hist[k].op = "tap_mut" =>
            /\ InvokedOnce(k)
            /\ SeenBy(k) = hist[k].input
            /\ hist[k].output = EffMut(hist[k].func, hist[k].input)
            /\ hist[k].output.ty = hist[k].input.ty
            /\ hist[k].func = "Sort" =>
                  hist[k].output = [hist[k].input EXCEPT !.buf = Sorted(@)]
            /\ hist[k].func = "Double" =>
                  hist[k].output = [hist[k].input EXCEPT !.val = 2 * @]
            /\ hist[k].func = "Fail" =>
                  /\ ~OnSuccess(hist[k].output)
                  /\ hist[k].output.val = IF hist[k].input.ty = "Option" THEN Unit ELSE I32(0)

\* [1, 5, 2, 4, 3].tap_mut(|arr| arr.sort()) has returned [1, 2, 3, 4, 5].
MutationVisibilityWitness ==
    /\ Len(hist) = 1
    /\ hist[1].op = "tap_mut" /\ hist[1].func = "Sort"
    /\ hist[1].input = Vec(<<1, 5, 2, 4, 3>>, 5)
    /\ self = Vec(<<1, 2, 3, 4, 5>>, 5)

\* The scope the k-th method call started in, and how it left things.
ScopeAt(k) ==
    [val |-> hist[k].val0, calls |-> SelectSeq(calls, LAMBDA c : c.at < k), at |-> k]
OutcomeOf(k) ==
    [ret |-> hist[k].output, val |-> ValAfter(k),
     calls |-> SelectSeq(calls, LAMBDA c : c.at <= k)]

\* The non-gated method a gated call stands for, run on the same receiver.
Counterpart(h, env) ==
    CASE h.op = "tap_dbg" -> tap(h.input, h.func, env)
      [] h.op = "tap_mut_dbg" -> tap_mut(h.input, h.func, env)
      [] h.op = "tap_borrow_dbg" -> tap_borrow(h.input, h.via, h.func, env)
      [] h.op = "tap_borrow_mut_dbg" -> tap_borrow_mut(h.input, h.via, h.func, env)
      [] h.op = "tap_ref_dbg" -> tap_ref(h.input, h.via, h.func, env)
      [] h.op = "tap_ref_mut_dbg" -> tap_ref_mut(h.input, h.via, h.func, env)
      [] h.op = "tap_deref_dbg" -> tap_deref(h.input, h.via, h.func, env)
      [] h.op = "tap_deref_mut_dbg" -> tap_deref_mut(h.input, h.via, h.func, env)
      [] h.op = "tap_continue_dbg" -> tap_continue(h.input, h.func, env)
      [] h.op = "tap_continue_mut_dbg" -> tap_continue_mut(h.input, h.func, env)
      [] h.op = "tap_break_dbg" -> tap_break(h.input, h.func, env)
      [] h.op = "tap_break_mut_dbg" -> tap_break_mut(h.input, h.func, env)

(* C5  Release elision.  With debug assertions disabled a *_dbg method of   *)
(* Tap or TapFallible never invokes its effect, returns its receiver as it  *)
(* was and leaves the captured variable alone, so a chain of gated taps     *)
(* records no invocation at all.  With debug assertions enabled it does,    *)
(* to the receiver, the captured variable and the record of invocations,    *)
(* exactly what its non-gated counterpart does from the same receiver and   *)
(* scope: the gated Tap methods invoke their effect once, the gated         *)
(* TapFallible methods on the branch their counterpart invokes it on.       *)

ReleaseElision ==
    /\ \A k \in DOMAIN hist :
          hist[k].op \in GatedOps =>
              IF ~debug_assertions
              THEN /\ ~Invoked(k)
                   /\ hist[k].output = hist[k].input
                   /\ ValAfter(k) = hist[k].val0
              ELSE /\ OutcomeOf(k) = Counterpart(hist[k], ScopeAt(k))
                   /\ hist[k].op \in GatedTapOps => InvokedOnce(k)
                   /\ hist[k].op \in {"tap_continue_dbg", "tap_continue_mut_dbg"}
                         => (Invoked(k) <=> OnSuccess(hist[k].input))
                   /\ hist[k].op \in {"tap_break_dbg", "tap_break_mut_dbg"}
                         => (Invoked(k) <=> ~OnSuccess(hist[k].input))
    /\ (~debug_assertions /\ \A k \in DOMAIN hist : hist[k].op \in GatedOps)
          => (calls = <<>> /\ val = InitVal /\ (hist # <<>> => self = hist[1].input))

\* A release build ran a sort, a length read and another sort, all gated, on
\* [1, 5, 2, 4, 3]: nothing was invoked and the vector is as it was.
ReleaseElisionWitness ==
    /\ ~debug_assertions
    /\ Len(hist) = 3
    /\ hist[1].op = "tap_mut_dbg" /\ hist[1].func = "Sort"
    /\ hist[2].op = "tap_ref_dbg"
    /\ hist[3].op = "tap_deref_mut_dbg"
    /\ self = Vec(<<1, 5, 2, 4, 3>>, 5)
    /\ calls = <<>>

MutableConditionalTap ==
    \A k \in DOMAIN hist :
        /\ (hist[k].op = "tap_continue_mut" /\ OnSuccess(hist[k].input)) =>
              /\ SeenBy(k) = hist[k].input.val
              /\ hist[k].output =
                    [hist[k].input EXCEPT !.val = PayloadAfter(hist[k].func, @)]
              /\ (hist[k].input = Ok(I32(8)) /\ hist[k].func = "Double")
                    => hist[k].output = Ok(I32(16))
        /\ (hist[k].op = "tap_break_mut" /\ ~OnSuccess(hist[k].input)) =>
              /\ SeenBy(k).val = hist[k].input.val
              /\ hist[k].output =
                    [hist[k].input EXCEPT !.val = PayloadAfter(hist[k].func, @)]
              /\ (hist[k].input = Err(I32(5)) /\ hist[k].func = "DoublePayload")
                    => hist[k].output = Err(I32(10))

\* Ok(8).tap_continue_mut(|v| *v *= 2) has returned Ok(16).
MutableConditionalTapWitness ==
    /\ Len(hist) = 1
    /\ hist[1].op = "tap_continue_mut" /\ hist[1].func = "Double"
    /\ hist[1].input = Ok(I32(8))
    /\ self = Ok(I32(16))

(* C8  Mutable view taps write through.  tap_borrow_mut, tap_ref_mut and    *)
(* tap_deref_mut return the receiver with what the effect did to the view   *)
(* and nothing else changed: sorting the slice view of [1, 5, 2, 4, 3]      *)
(* returns the Vec [1, 2, 3, 4, 5], its capacity as before.                 *)
MutableViewWriteThrough ==
    \A k \in DOMAIN hist :
        hist[k].op \in {"tap_borrow_mut", "tap_ref_mut", "tap_deref_mut"} =>
            /\ InvokedOnce(k)
            /\ hist[k].output.ty = hist[k].input.ty
            /\ hist[k].via = hist[k].input.ty =>
                  hist[k].output = EffMut(hist[k].func, hist[k].input)
            /\ hist[k].via # hist[k].input.ty =>
                  /\ SeenBy(k) = [ty |-> "slice", buf |-> hist[k].input.buf]
                  /\ hist[k].output =
                        [hist[k].input EXCEPT !.buf = ElementsAfter(hist[k].func, @)]
            /\ (hist[k].input.ty = "Vec" /\ hist[k].input.buf = <<1, 5, 2, 4, 3>>
                                          /\ hist[k].func = "Sort")
                  => (hist[k].output.buf = <<1, 2, 3, 4, 5>>
                      /\ hist[k].output.cap = hist[k].input.cap)

\* vec![1, 5, 2, 4, 3].tap_deref_mut(<[_]>::sort) has returned [1, 2, 3, 4, 5].
MutableViewWriteThroughWitness ==
    /\ Len(hist) = 1
    /\ hist[1].op = "tap_deref_mut" /\ hist[1].via = "slice" /\ hist[1].func = "Sort"
    /\ hist[1].input = Vec(<<1, 5, 2, 4, 3>>, 5)
    /\ self = Vec(<<1, 2, 3, 4, 5>>, 5)

(* C9  The non-target branch is a no-op.  A success tap on a Failure and a  *)
(* failure tap on a Success invoke nothing, leave the captured variable     *)
(* alone and return the Outcome with its tag and payload as they were; the  *)
(* immutable forms return tag and payload unchanged on the target branch    *)
(* too.                                                                     *)
NonTargetNoOp ==
    \A k \in DOMAIN hist :
        /\ ( \/ hist[k].op \in ContinueOps /\ ~OnSuccess(hist[k].input)
             \/ hist[k].op \in BreakOps /\ OnSuccess(hist[k].input) ) =>
              /\ ~Invoked(k)
              /\ ValAfter(k) = hist[k].val0
              /\ hist[k].output.tag = hist[k].input.tag
              /\ hist[k].output.val = hist[k].input.val
              /\ hist[k].output = hist[k].input
        /\ hist[k].op \in {"tap_continue", "tap_break"} =>
              /\ hist[k].output.tag = hist[k].input.tag
              /\ hist[k].output.val = hist[k].input.val
              /\ hist[k].output = hist[k].input

\* Err(5).tap_break(|Err(e)| val = *e).tap_continue(f): the failure tap recorded 5,
\* the success tap called nothing, and Err(5) came back.
NonTargetNoOpWitness ==
    /\ Len(hist) = 2
    /\ hist[1].op = "tap_break" /\ hist[1].input = Err(I32(5)) /\ Invoked(1)
    /\ hist[2].op = "tap_continue" /\ hist[2].input = Err(I32(5)) /\ ~Invoked(2)
    /\ val = 5
    /\ Len(calls) = 1
    /\ self = Err(I32(5))

NonGatedOps == UnconditionalOps \union ContinueOps \union BreakOps

\* The view the k-th method owes its effect, read off the value it was called on.
ViewOwed(h) ==
    CASE h.op \in {"tap", "tap_mut"} -> h.input
      [] h.op \in ContinueOps -> h.input.val
      [] h.op \in BreakOps -> [ty |-> ResidualTy(h.input.ty), val |-> h.input.val]
      [] OTHER -> IF h.via = h.input.ty THEN h.input
                  ELSE [ty |-> "slice", buf |-> h.input.buf]

\* The value the k-th method owes its caller once its effect has run (or has not).
ValueOwed(h, invoked) ==
    CASE ~invoked -> h.input
      [] invoked /\ h.op = "tap_mut" -> EffMut(h.func, h.input)
      [] invoked /\ h.op \in {"tap_borrow_mut", "tap_ref_mut", "tap_deref_mut"} ->
            IF h.via = h.input.ty THEN EffMut(h.func, h.input)
            ELSE [h.input EXCEPT !.buf = ElementsAfter(h.func, @)]
      [] invoked /\ h.op \in {"tap_continue_mut", "tap_break_mut"} ->
            [h.input EXCEPT !.val = PayloadAfter(h.func, @)]
      [] OTHER -> h.input

(* C10  Chain ordering.  In a chain of non-gated taps every effect is       *)
(* invoked at most once, exactly once by the unconditional taps; the        *)
(* invocations happen in the order of the chain, each by the method it was  *)
(* given to; every effect is over before the next method starts, which so   *)
(* finds the captured variable as that effect left it; the k-th effect is   *)
(* handed the view of the value the first k-1 effects left; and the chain   *)
(* returns the value the last effect left.                                  *)

ChainOrdering ==
    (\A k \in DOMAIN hist : hist[k].op \in NonGatedOps) =>
        /\ \A k \in DOMAIN hist :
              /\ Cardinality(InvocationsOf(k)) <= 1
              /\ hist[k].op \in UnconditionalOps => InvokedOnce(k)
              /\ Invoked(k) => SeenBy(k) = ViewOwed(hist[k])
              /\ hist[k].output = ValueOwed(hist[k], Invoked(k))
              /\ ValAfter(k) = IF Invoked(k)
                               THEN EffVal(hist[k].func, SeenBy(k), hist[k].val0)
                               ELSE hist[k].val0
              /\ k > 1 => hist[k].input = hist[k - 1].output
        /\ \A i, j \in DOMAIN calls : i < j => calls[i].at < calls[j].at
        /\ \A i \in DOMAIN calls :
              calls[i].at \in DOMAIN hist /\ calls[i].func = hist[calls[i].at].func
        /\ hist # <<>> =>
              /\ hist[1].input \in Receivers /\ hist[1].val0 = InitVal
              /\ self = hist[Len(hist)].output

\* 10.tap_mut(|v| *v *= 2).tap(|v| val += *v).tap_mut(|v| *v *= 2) with val = 5:
\* the second effect saw 20, val is 25 and the chain returned 40.
ChainOrderingWitness ==
    /\ Len(hist) = 3
    /\ hist[1].op = "tap_mut" /\ hist[1].func = "Double" /\ hist[1].input = I32(10)
    /\ hist[2].op = "tap" /\ hist[2].func = "AddVal"
    /\ hist[3].op = "tap_mut" /\ hist[3].func = "Double"
    /\ Len(calls) = 3
    /\ calls[2].seen = I32(20)
    /\ val = 25
    /\ self = I32(40)

=============================================================================
